---- MODULE Spec2Model ----
(***************************************************************************)
(* Model of .github/scripts/generate_summary.py: the TestSummary data      *)
(* model, the per-format parsers, format detection, the Markdown renderer  *)
(* with its size ceiling, the JSON emitter and main's output plumbing.     *)
(*                                                                         *)
(* Conventions.  Free text (titles, names, messages) is represented by its *)
(* UTF-8 byte length.  A multi-line text (file content, raw_output) is the *)
(* sequence of the byte lengths of the lines str.split("\n") yields, so    *)
(* the empty string is <<0>>.  Durations are integer milliseconds.         *)
(* Closed sets of tags (statuses, format names) are TLA+ strings.          *)
(***************************************************************************)
EXTENDS Integers, Sequences, FiniteSets, TLC

VARIABLES
    pc,          \* position of main: "start", "built", "exit"
    env,         \* os.environ: which of the two CI variables are set
    input,       \* what main was given: the file and --format, or manual flags
    summary,     \* the TestSummary main holds (NoSummary before it is built)
    args,        \* the output options main read (NoArgs before they are read)
    stdout,      \* what was printed to standard output
    stderr,      \* what was written to the error stream
    outputFile,  \* content of the --output file (NoFile when never written)
    stepSummaryFile, \* text appended to the GITHUB_STEP_SUMMARY file
    outputsFile, \* lines appended to the GITHUB_OUTPUT file
    exitCode,    \* main's return value (NoExit while running)
    returned     \* value the last function applied returned (main's local
                 \* "markdown"/"output", or an accessor's result)

vars == <<pc, env, input, summary, args, stdout, stderr, outputFile,
          stepSummaryFile, outputsFile, exitCode, returned>>

----------------------------------------------------------------------------
(* Bounds of the model *)

MaxResults == 3
MaxEntries == 2
MaxSuites == 2
MaxCases == 2
MaxRawLines == 2
MaxCount == 2
MaxTextLines == 2

----------------------------------------------------------------------------
(* Program constants *)

SAFE_SUMMARY_SIZE == 1000000
TRUNCATION_RESERVE == 100
MAX_FAILED_SHOWN == 20
MAX_PASSED_SHOWN == 50
MAX_MESSAGE_CHARS == 200
DEFAULT_MAX_LINES == 100
DefaultTitle == 12

----------------------------------------------------------------------------
(* Generic helpers *)

NoMatch == 0 - 1
NoSummary == [none |-> TRUE]
NoArgs == [none |-> TRUE]
NoFile == <<"absent">>
NoExit == 0 - 1

SeqsUpTo(S, n) == UNION {[1..k -> S] : k \in 0..n}

RECURSIVE SumSeq(_)
SumSeq(s) == IF s = <<>> THEN 0 ELSE Head(s) + SumSeq(Tail(s))

RECURSIVE Flatten(_)
Flatten(ss) == IF ss = <<>> THEN <<>> ELSE Head(ss) \o Flatten(Tail(ss))

RECURSIVE DecLen(_)
DecLen(n) ==
    IF n < 0 THEN 1 + DecLen(0 - n)
    ELSE IF n < 10 THEN 1 ELSE 1 + DecLen(n \div 10)

OrZero(a) == IF a = NoMatch THEN 0 ELSE a

EmptyText == <<0>>
TextBytes(t) == SumSeq(t) + (Len(t) - 1)
TextOfLines(ls) == ls \o <<0>>

----------------------------------------------------------------------------
(* Data model: TestCase and TestSummary *)

TestCase(name, classname, status, duration, message, output) ==
    [name |-> name, classname |-> classname, status |-> status,
     duration |-> duration, message |-> message, output |-> output]

TestSummary(fmt) ==
    [title |-> DefaultTitle, passed |-> 0, failed |-> 0, skipped |-> 0,
     errors |-> 0, total |-> 0, duration |-> 0, test_cases |-> <<>>,
     raw_output |-> EmptyText, format_detected |-> fmt, timestamp |-> ""]

calculate_totals_no_errors(s) ==
    IF s.total = 0
    THEN [s EXCEPT !.total = s.passed + s.failed + s.skipped]
    ELSE s

calculate_totals(s) ==
    IF s.total = 0
    THEN [s EXCEPT !.total = s.passed + s.failed + s.skipped + s.errors]
    ELSE s

status_ignores_errors(s) ==
    IF s.failed > 0 THEN "failed"
    ELSE IF s.passed > 0 THEN "passed"
    ELSE "unknown"

status(s) ==
    IF s.failed > 0 \/ s.errors > 0 THEN "failed"
    ELSE IF s.passed > 0 THEN "passed"
    ELSE "unknown"

\* pass_rate is a float; the model keeps it exact, as the fraction
\* num / den with den > 0.
Fraction(num, den) ==
    IF den < 0 THEN [num |-> 0 - num, den |-> 0 - den]
    ELSE [num |-> num, den |-> den]

pass_rate_unguarded(s) ==
    Fraction(s.passed * 100, IF s.total = 0 THEN 1 ELSE s.total)

pass_rate(s) ==
    IF s.total = 0 THEN Fraction(0, 1)
    ELSE Fraction(s.passed * 100, s.total)

\* A fraction in tenths, rounded to the nearest tenth as the ":.1f"
\* formatting rounds it.
Tenths(r) == (2 * 10 * r.num + r.den) \div (2 * r.den)

----------------------------------------------------------------------------
(* Input documents, as the parsers' patterns see them *)

\* TAP: an optional plan line "1..N" followed by result lines.
\*   "ok"        ok i - a              "notok"     not ok i - b
\*   "okskip"    ok i - c # SKIP       "notoktodo" not ok i # TODO
PlanVals == {0, 1, 3}
TapKinds == {"ok", "notok", "okskip", "notoktodo"}
TapDocs ==
    [fmt : {"tap"}, plan : {NoMatch} \cup PlanVals,
     results : SeqsUpTo(TapKinds, MaxResults)]

\* Go: "=== RUN" lines, then "--- PASS|FAIL|SKIP: T (0.01s)" lines, then an
\* optional overall line "ok pkg 1.5s".
GoKinds == {"PASS", "FAIL", "SKIP"}
GoDocs ==
    [fmt : {"go"}, results : SeqsUpTo(GoKinds, MaxEntries),
     overall : {NoMatch, 1500}]

\* npm/Jest: an optional "Tests: ..." line whose clauses come in the order
\* passed, failed, skipped, total (a clause that is absent is NoMatch), and
\* "PASS <suite>" / "FAIL <suite>" lines.
NpmDocs ==
    [fmt : {"npm"}, tests_line : {TRUE}, n_passed : {NoMatch, 5},
     n_failed : {NoMatch, 1}, n_skipped : {NoMatch}, n_total : {NoMatch, 0, 3},
     suites : {<<>>, <<"PASS", "FAIL">>}, time : {NoMatch, 2500}]
    \cup [fmt : {"npm"}, tests_line : {FALSE}, n_passed : {NoMatch},
          n_failed : {NoMatch}, n_skipped : {NoMatch}, n_total : {NoMatch},
          suites : {<<"PASS", "FAIL">>}, time : {NoMatch}]

\* Generic text: which of the phrases the seven patterns, the total pattern
\* and the duration pattern find, and the number in each (NoMatch: none).
GenericDocs ==
    [fmt : {"generic"}, n_passed : {NoMatch, 3}, n_failed : {NoMatch, 1},
     n_skipped : {NoMatch}, n_errors : {NoMatch, 1}, kv_passed : {NoMatch, 2},
     kv_failed : {NoMatch}, kv_skipped : {NoMatch, 1}, n_total : {NoMatch, 0, 4},
     time : {NoMatch}]

\* JUnit XML: well-formed or not, the root tag, and the testsuite elements
\* with their attributes (NoMatch: attribute missing) and testcase children.
Suite(tests, failures, errs, skipped, time, cases) ==
    [tests |-> tests, failures |-> failures, errors |-> errs,
     skipped |-> skipped, time |-> time, cases |-> cases]
SuiteVals ==
    { Suite(3, 1, NoMatch, 1, 250, <<"failure", "skipped">>),
      Suite(1, 2, 0, 0, 250, <<"failure">>),
      Suite(2, 0, 1, 0, 70000, <<"error", "passed">>),
      Suite(NoMatch, NoMatch, NoMatch, NoMatch, NoMatch, <<>>) }
JUnitDocs ==
    [fmt : {"junit"}, wellformed : {TRUE}, root : {"testsuites"},
     suites : SeqsUpTo(SuiteVals, MaxSuites)]
    \cup [fmt : {"junit"}, wellformed : {TRUE}, root : {"testsuite", "other"},
          suites : [1..1 -> SuiteVals]]
    \cup [fmt : {"junit"}, wellformed : {FALSE}, root : {"testsuite"},
          suites : {<<>>}]

\* pytest JSON, by the shape of the decoded document:
\*   "undecodable"  text that json.load rejects
\*   "report"       an object with a "summary" key (pytest-json-report)
\*   "reportlog"    an array of objects (pytest-report-log)
\*   "object"       an object without a "summary" key
\*   "scalar"       a bare number, null or boolean
\*   "string"       a JSON string that does not contain the text summary
\*   "array_named"  an array that contains the string "summary"
\*   "array_mixed"  an array with an element that is not an object
ReportSummaries ==
    [passed : {NoMatch, 2}, failed : {NoMatch, 1}, skipped : {NoMatch},
     error : {NoMatch}, total : {NoMatch, 3}]
ReportTests ==
    { <<>>,
      << [nodeid |-> 9, outcome |-> "failed", duration |-> 20, longrepr |-> 80],
         [nodeid |-> 9, outcome |-> "passed", duration |-> 5, longrepr |-> NoMatch] >> }
LogKinds == {"passed", "failed", "skipped", "collect"}
PytestDocs ==
    [fmt : {"pytest-json"}, shape : {"report"}, summary : ReportSummaries,
     duration : {NoMatch, 1200}, tests : ReportTests]
    \cup [fmt : {"pytest-json"}, shape : {"reportlog"},
          entries : SeqsUpTo(LogKinds, MaxEntries)]
    \cup [fmt : {"pytest-json"},
          shape : {"undecodable", "object", "scalar", "string", "array_named",
                   "array_mixed"}]

Docs == TapDocs \cup GoDocs \cup NpmDocs \cup GenericDocs \cup JUnitDocs
            \cup PytestDocs

----------------------------------------------------------------------------
(* The text of a document: the byte lengths of its lines *)

TapResultLine(kind, i) ==
    CASE kind = "ok" -> 7 + DecLen(i)
      [] kind = "notok" -> 11 + DecLen(i)
      [] kind = "okskip" -> 14 + DecLen(i)
      [] kind = "notoktodo" -> 14 + DecLen(i)

PhraseLines(doc, fields) ==
    LET RECURSIVE Go(_)
        Go(fs) ==
            IF fs = <<>> THEN <<>>
            ELSE (IF doc[Head(fs)] = NoMatch THEN <<>>
                  ELSE <<8 + DecLen(doc[Head(fs)])>>)
                 \o Go(Tail(fs))
    IN Go(fields)

DocLines(doc) ==
    CASE doc.fmt = "tap" ->
            (IF doc.plan = NoMatch THEN <<>> ELSE <<3 + DecLen(doc.plan)>>)
            \o [i \in 1..Len(doc.results) |-> TapResultLine(doc.results[i], i)]
      [] doc.fmt = "go" ->
            [i \in 1..Len(doc.results) |-> 15]
            \o [i \in 1..Len(doc.results) |-> 23]
            \o (IF doc.overall = NoMatch THEN <<>> ELSE <<14>>)
      [] doc.fmt = "npm" ->
            [i \in 1..Len(doc.suites) |-> 18]
            \o (IF doc.tests_line
                THEN <<6 + SumSeq(PhraseLines(doc,
                             <<"n_passed", "n_failed", "n_skipped", "n_total">>))>>
                ELSE <<>>)
            \o (IF doc.time = NoMatch THEN <<>> ELSE <<11>>)
      [] doc.fmt = "generic" ->
            PhraseLines(doc, <<"n_passed", "n_failed", "n_skipped", "n_errors",
                               "kv_passed", "kv_failed", "kv_skipped", "n_total">>)
      [] doc.fmt = "junit" ->
            <<38>> \o [i \in 1..Len(doc.suites) |-> 60]
      [] doc.fmt = "pytest-json" -> <<2>>

DocText(doc) == TextOfLines(DocLines(doc))

----------------------------------------------------------------------------
(* Parsers.  Each returns [ok |-> TRUE, summary |-> s], or                *)
(* [ok |-> FALSE, error |-> e] when it raises e.                          *)

Parsed(s) == [ok |-> TRUE, summary |-> s]
Raised(e) == [ok |-> FALSE, error |-> e]

CountStatus(cases, st) == Cardinality({i \in DOMAIN cases : cases[i].status = st})
CountKind(kinds, k) == Cardinality({i \in DOMAIN kinds : kinds[i] = k})

JUnitCase(kind) ==
    CASE kind = "failure" -> TestCase(6, 5, "failed", 10, 250, 40)
      [] kind = "error" -> TestCase(6, 5, "error", 10, 30, 40)
      [] kind = "skipped" -> TestCase(6, 5, "skipped", 0, 12, 0)
      [] kind = "passed" -> TestCase(6, 0, "passed", 10, 0, 0)

\* The summary parse_junit_xml accumulates from a well-formed document.
JUnitSummary(doc) ==
    LET testsuites == IF doc.root \in {"testsuites", "testsuite"}
                      THEN doc.suites ELSE <<>>
        attr(name) == SumSeq([i \in DOMAIN testsuites |->
                                 OrZero(testsuites[i][name])])
        cases == Flatten([i \in DOMAIN testsuites |->
                   [j \in DOMAIN testsuites[i].cases |->
                      JUnitCase(testsuites[i].cases[j])]])
        total == attr("tests")
        failed == attr("failures")
        errs == attr("errors")
        skipped == attr("skipped")
    IN [TestSummary("junit") EXCEPT
          !.total = total, !.failed = failed, !.errors = errs,
          !.skipped = skipped, !.duration = attr("time"),
          !.test_cases = cases,
          !.passed = total - failed - errs - skipped]

parse_junit_xml_swallow(doc) ==
    IF doc.fmt # "junit" \/ ~doc.wellformed
    THEN Parsed(TestSummary("junit"))
    ELSE Parsed(JUnitSummary(doc))

parse_junit_xml(doc) ==
    IF doc.fmt # "junit" \/ ~doc.wellformed
    THEN Raised("ValueError: Failed to parse JUnit XML")
    ELSE Parsed(JUnitSummary(doc))

ReportCase(t) ==
    TestCase(t.nodeid, 0, t.outcome, t.duration, 0,
             IF t.longrepr = NoMatch THEN 0 ELSE t.longrepr)

parse_pytest_json(doc) ==
    IF doc.fmt # "pytest-json" \/ doc.shape = "undecodable"
    THEN Raised("ValueError: Failed to parse pytest JSON")
    ELSE
      CASE doc.shape = "scalar" ->
              Raised("TypeError: argument is not iterable")
        [] doc.shape = "array_named" ->
              Raised("TypeError: list indices must be integers")
        [] doc.shape = "array_mixed" ->
              Raised("AttributeError: no attribute get")
        [] doc.shape \in {"object", "string"} ->
              Parsed(TestSummary("pytest-json"))
        [] doc.shape = "report" ->
              Parsed([TestSummary("pytest-json") EXCEPT
                        !.passed = OrZero(doc.summary.passed),
                        !.failed = OrZero(doc.summary.failed),
                        !.skipped = OrZero(doc.summary.skipped),
                        !.errors = OrZero(doc.summary.error),
                        !.total = OrZero(doc.summary.total),
                        !.duration = OrZero(doc.duration),
                        !.test_cases = [i \in DOMAIN doc.tests |->
                                           ReportCase(doc.tests[i])]])
        [] doc.shape = "reportlog" ->
              Parsed(calculate_totals(
                     [TestSummary("pytest-json") EXCEPT
                        !.passed = CountKind(doc.entries, "passed"),
                        !.failed = CountKind(doc.entries, "failed"),
                        !.skipped = CountKind(doc.entries, "skipped")]))

GoStatus(kind) ==
    CASE kind = "PASS" -> "passed" [] kind = "FAIL" -> "failed"
      [] kind = "SKIP" -> "skipped"

parse_go_test(doc) ==
    LET results == doc.results
        cases == [i \in DOMAIN results |->
                    TestCase(5, 0, GoStatus(results[i]), 10, 0, 0)]
    IN Parsed(calculate_totals(
           [TestSummary("go") EXCEPT
              !.raw_output = DocText(doc),
              !.passed = CountStatus(cases, "passed"),
              !.failed = CountStatus(cases, "failed"),
              !.skipped = CountStatus(cases, "skipped"),
              !.test_cases = cases,
              !.duration = OrZero(doc.overall)]))

parse_npm_test(doc) ==
    LET tests_match == doc.tests_line
        suites == doc.suites
        grp(name) == IF tests_match THEN OrZero(doc[name]) ELSE 0
    IN Parsed(calculate_totals(
           [TestSummary("npm") EXCEPT
              !.raw_output = DocText(doc),
              !.passed = grp("n_passed"),
              !.failed = grp("n_failed"),
              !.skipped = grp("n_skipped"),
              !.total = grp("n_total"),
              !.duration = OrZero(doc.time),
              !.test_cases = [i \in DOMAIN suites |->
                 TestCase(13, 0, IF suites[i] = "PASS" THEN "passed" ELSE "failed",
                          0, 0, 0)]]))

\* What one TAP result line gives: the status before directives, the
\* directive found in the trailing text, and the length of the name left
\* after the directive is stripped.
TapFields(kind) ==
    CASE kind = "ok" -> [ok |-> TRUE, directive |-> "", name |-> 1]
      [] kind = "notok" -> [ok |-> FALSE, directive |-> "", name |-> 1]
      [] kind = "okskip" -> [ok |-> TRUE, directive |-> "# SKIP", name |-> 1]
      [] kind = "notoktodo" -> [ok |-> FALSE, directive |-> "# TODO", name |-> 0]

TapCase(kind, i) ==
    LET f == TapFields(kind)
        st == IF f.directive \in {"# SKIP", "# TODO"} THEN "skipped"
              ELSE IF f.ok THEN "passed" ELSE "failed"
    IN TestCase(IF f.name = 0 THEN 5 + DecLen(i) ELSE f.name, 0, st, 0, 0, 0)

parse_tap(doc) ==
    LET cases == [i \in DOMAIN doc.results |-> TapCase(doc.results[i], i)]
    IN Parsed(calculate_totals(
           [TestSummary("tap") EXCEPT
              !.raw_output = DocText(doc),
              !.total = OrZero(doc.plan),
              !.passed = CountStatus(cases, "passed"),
              !.failed = CountStatus(cases, "failed"),
              !.skipped = CountStatus(cases, "skipped"),
              !.test_cases = cases]))

\* What the generic patterns find in a document.  Jest's "Tests:" line and
\* "Time:" line carry the phrases "<n> passed", "<n> total", "time: <n> s";
\* the other formats' lines carry none of the phrases.
GenericMatches(doc) ==
    LET none == [n_passed |-> NoMatch, n_failed |-> NoMatch,
                 n_skipped |-> NoMatch, n_errors |-> NoMatch,
                 kv_passed |-> NoMatch, kv_failed |-> NoMatch,
                 kv_skipped |-> NoMatch, n_total |-> NoMatch, time |-> NoMatch]
    IN CASE doc.fmt = "generic" -> doc
         [] doc.fmt = "npm" ->
              [none EXCEPT !.n_passed = doc.n_passed, !.n_failed = doc.n_failed,
                           !.n_skipped = doc.n_skipped, !.n_total = doc.n_total,
                           !.time = doc.time]
         [] OTHER -> none

\* The patterns are tried in list order and each match overwrites the field.
LastMatch(first, second) == IF second # NoMatch THEN second ELSE OrZero(first)

parse_generic(doc) ==
    LET m == GenericMatches(doc)
        s == [TestSummary("generic") EXCEPT
                !.raw_output = DocText(doc),
                !.passed = LastMatch(m.n_passed, m.kv_passed),
                !.failed = LastMatch(m.n_failed, m.kv_failed),
                !.skipped = LastMatch(m.n_skipped, m.kv_skipped),
                !.errors = OrZero(m.n_errors)]
        t == IF m.n_total # NoMatch THEN [s EXCEPT !.total = m.n_total]
             ELSE calculate_totals(s)
    IN Parsed([t EXCEPT !.duration = OrZero(m.time)])

----------------------------------------------------------------------------
(* Format detection and dispatch *)

Formats == {"junit", "pytest-json", "go", "npm", "tap", "generic"}
FormatChoices == {"auto"} \cup Formats
Suffixes == {".xml", ".json", ".txt"}

\* A path, as Path(file_path).suffix sees it: the byte length of the final
\* component's text before its last dot (0 for a dotfile such as ".xml"), and
\* the text from that dot on.
Paths == [stem : {0, 6}, ending : Suffixes]

\* Path.suffix: the text from the last dot of the final component, unless
\* that dot is the component's first character.
PathSuffix(path) == IF path.stem > 0 THEN path.ending ELSE ""

\* The lines of a text, each by what the detector's patterns see in it:
\*   "blank"      whitespace only           "other"     none of the patterns
\*   "xmldecl"    <?xml ...                 "brace"     { ...
\*   "run"        === RUN T                 "dashpass"  --- PASS: T (0.01s)
\*   "tests"      Tests: ...                "passsuite" PASS <suite>
\*   "plan"       1..N
SniffKinds == {"blank", "other", "xmldecl", "brace", "run", "dashpass",
               "tests", "passsuite", "plan"}

LineKinds(doc) ==
    CASE doc.fmt = "tap" ->
            (IF doc.plan = NoMatch THEN <<>> ELSE <<"plan">>)
            \o [i \in 1..Len(doc.results) |-> "other"]
      [] doc.fmt = "go" ->
            [i \in 1..Len(doc.results) |-> "run"]
            \o [i \in 1..Len(doc.results) |->
                  IF doc.results[i] = "PASS" THEN "dashpass" ELSE "other"]
            \o (IF doc.overall = NoMatch THEN <<>> ELSE <<"other">>)
      [] doc.fmt = "npm" ->
            [i \in 1..Len(doc.suites) |->
                  IF doc.suites[i] = "PASS" THEN "passsuite" ELSE "other"]
            \o (IF doc.tests_line THEN <<"tests">> ELSE <<>>)
            \o (IF doc.time = NoMatch THEN <<>> ELSE <<"other">>)
      [] doc.fmt = "generic" -> [i \in 1..Len(DocLines(doc)) |-> "other"]
      [] doc.fmt = "junit" ->
            <<"xmldecl">> \o [i \in 1..Len(doc.suites) |-> "other"]
      [] doc.fmt = "pytest-json" ->
            IF doc.shape \in {"report", "object", "undecodable"}
            THEN <<"brace">> ELSE <<"other">>
      [] OTHER -> <<>>

\* "".join(f.readline() for _ in range(10))
SNIFF_LINES == 10
first_lines(text) ==
    SubSeq(text, 1, IF Len(text) < SNIFF_LINES THEN Len(text) ELSE SNIFF_LINES)

\* first_lines.strip().startswith(...): the first line that is not blank.
Stripped(lines) == SelectSeq(lines, LAMBDA k : k # "blank")
Contains(lines, kinds) == \E i \in DOMAIN lines : lines[i] \in kinds

StartsWithXmlDecl(lines) ==
    Stripped(lines) # <<>> /\ Head(Stripped(lines)) = "xmldecl"
StartsWithBrace(lines) ==
    Stripped(lines) # <<>> /\ Head(Stripped(lines)) = "brace"
HasGoMarker(lines) == Contains(lines, {"run", "dashpass"})
HasNpmMarker(lines) == Contains(lines, {"tests", "passsuite"})
HasPlanLine(lines) == Contains(lines, {"plan"})

detect_format_npm_before_go(file) ==
    IF PathSuffix(file.path) = ".xml" THEN "junit"
    ELSE IF PathSuffix(file.path) = ".json" THEN "pytest-json"
    ELSE IF ~file.readable THEN "generic"
    ELSE IF StartsWithXmlDecl(first_lines(file.text)) THEN "junit"
    ELSE IF StartsWithBrace(first_lines(file.text)) THEN "pytest-json"
    ELSE IF HasNpmMarker(first_lines(file.text)) THEN "npm"
    ELSE IF HasGoMarker(first_lines(file.text)) THEN "go"
    ELSE IF HasPlanLine(first_lines(file.text)) THEN "tap"
    ELSE "generic"

detect_format(file) ==
    IF PathSuffix(file.path) = ".xml" THEN "junit"
    ELSE IF PathSuffix(file.path) = ".json" THEN "pytest-json"
    ELSE IF ~file.readable THEN "generic"
    ELSE IF StartsWithXmlDecl(first_lines(file.text)) THEN "junit"
    ELSE IF StartsWithBrace(first_lines(file.text)) THEN "pytest-json"
    ELSE IF HasGoMarker(first_lines(file.text)) THEN "go"
    ELSE IF HasNpmMarker(first_lines(file.text)) THEN "npm"
    ELSE IF HasPlanLine(first_lines(file.text)) THEN "tap"
    ELSE "generic"

ResolveFormat(file, format_type) ==
    IF format_type = "auto" THEN detect_format(file) ELSE format_type

ApplyParser(format_type, doc) ==
    CASE format_type = "junit" -> parse_junit_xml(doc)
      [] format_type = "pytest-json" -> parse_pytest_json(doc)
      [] format_type = "go" -> parse_go_test(doc)
      [] format_type = "npm" -> parse_npm_test(doc)
      [] format_type = "tap" -> parse_tap(doc)
      [] OTHER -> parse_generic(doc)

parse_results(file, format_type) ==
    IF ~file.exists THEN Raised("FileNotFoundError: Results file not found")
    ELSE IF ~file.readable THEN Raised("PermissionError")
    ELSE ApplyParser(ResolveFormat(file, format_type), file.doc)

----------------------------------------------------------------------------
(* Markdown renderer.  A rendered document is the sequence of its lines,  *)
(* each [k |-> what the line is, n |-> its UTF-8 byte length].            *)

Line(k, n) == [k |-> k, n |-> n]
Blank == Line("blank", 0)
TruncationWarning == Line("truncation warning", 47)

\* Byte length of "\n".join(lines).
JoinBytes(lines) ==
    IF lines = <<>> THEN 0
    ELSE SumSeq([i \in DOMAIN lines |-> lines[i].n]) + (Len(lines) - 1)

\* Length of the text format_duration returns for a duration in ms.
format_duration(ms) ==
    IF ms < 1000 THEN DecLen(ms) + 2
    ELSE IF ms < 60000 THEN DecLen(ms \div 1000) + 4
    ELSE DecLen(ms \div 60000) + 2 + DecLen((ms % 60000) \div 1000) + 3

\* Length of f"{pass_rate:.1f}".
PassRateText(s) ==
    LET t == Tenths(pass_rate(s))
    IN IF t < 0 THEN DecLen((0 - t) \div 10) + 3 ELSE DecLen(t \div 10) + 2

FormatTagLen(fmt) ==
    CASE fmt = "junit" -> 5 [] fmt = "pytest-json" -> 11 [] fmt = "go" -> 2
      [] fmt = "npm" -> 3 [] fmt = "tap" -> 3 [] fmt = "generic" -> 7
      [] fmt = "manual" -> 6 [] OTHER -> 7

\* truncate_text: the text cut to max_lines lines, and whether it was cut.
truncate_text(text, max_lines) ==
    IF max_lines > 0 /\ Len(text) > max_lines
    THEN [text |-> SubSeq(text, 1, max_lines), truncated |-> TRUE]
    ELSE [text |-> text, truncated |-> FALSE]

QualifiedName(tc) ==
    IF tc.classname # 0 THEN tc.classname + 2 + tc.name ELSE tc.name

ComposeLines(s, show_details, show_passed, max_details_lines, include_badge) ==
    LET badge ==
            IF ~include_badge THEN <<>>
            ELSE << Line("badge", CASE status(s) = "passed" -> 41
                                    [] status(s) = "failed" -> 26
                                    [] OTHER -> 39), Blank >>
        table ==
            IF s.total > 0
            THEN << Line("table header", 18), Line("table rule", 18),
                    Line("passed row", 32 + DecLen(s.passed)),
                    Line("failed row", 17 + DecLen(s.failed)) >>
                 \o (IF s.errors > 0
                     THEN <<Line("errors row", 20 + DecLen(s.errors))>> ELSE <<>>)
                 \o (IF s.skipped > 0
                     THEN <<Line("skipped row", 29 + DecLen(s.skipped))>> ELSE <<>>)
                 \o << Line("total row", 20 + DecLen(s.total)), Blank >>
                 \o (IF s.duration > 0
                     THEN << Line("duration", 14 + format_duration(s.duration)),
                             Blank >>
                     ELSE <<>>)
                 \o << Line("pass rate", 16 + PassRateText(s)), Blank >>
                 \o (IF s.format_detected # "unknown"
                     THEN << Line("format", 10 + FormatTagLen(s.format_detected)),
                             Blank >>
                     ELSE <<>>)
            ELSE << Line("no results", 33), Blank >>
        failed_cases ==
            SelectSeq(s.test_cases, LAMBDA tc : tc.status \in {"failed", "error"})
        failedShown ==
            SubSeq(failed_cases, 1,
                   IF Len(failed_cases) > MAX_FAILED_SHOWN
                   THEN MAX_FAILED_SHOWN ELSE Len(failed_cases))
        failedItem(tc) ==
            << Line("failed test", 8 + QualifiedName(tc)) >>
            \o (IF tc.message # 0
                THEN << Line("failure message",
                             4 + (IF tc.message > MAX_MESSAGE_CHARS
                                  THEN MAX_MESSAGE_CHARS + 3 ELSE tc.message)) >>
                ELSE <<>>)
        failedSection ==
            IF failed_cases # <<>> /\ show_details
            THEN << Line("failed heading", 16), Blank >>
                 \o Flatten([i \in DOMAIN failedShown |-> failedItem(failedShown[i])])
                 \o (IF Len(failed_cases) > MAX_FAILED_SHOWN
                     THEN << Line("more failures",
                                  24 + DecLen(Len(failed_cases) - MAX_FAILED_SHOWN)) >>
                     ELSE <<>>)
                 \o << Blank >>
            ELSE <<>>
        passed_cases == SelectSeq(s.test_cases, LAMBDA tc : tc.status = "passed")
        passedShown ==
            SubSeq(passed_cases, 1,
                   IF Len(passed_cases) > MAX_PASSED_SHOWN
                   THEN MAX_PASSED_SHOWN ELSE Len(passed_cases))
        passedItem(tc) ==
            Line("passed test",
                 23 + QualifiedName(tc)
                    + (IF tc.duration > 0 THEN 3 + format_duration(tc.duration)
                       ELSE 0))
        passedSection ==
            IF show_passed /\ passed_cases # <<>>
            THEN << Line("passed heading", 16), Blank >>
                 \o [i \in DOMAIN passedShown |-> passedItem(passedShown[i])]
                 \o (IF Len(passed_cases) > MAX_PASSED_SHOWN
                     THEN << Line("more passed",
                                  22 + DecLen(Len(passed_cases) - MAX_PASSED_SHOWN)) >>
                     ELSE <<>>)
                 \o << Blank >>
            ELSE <<>>
        cut == truncate_text(s.raw_output, max_details_lines)
        rawSection ==
            IF s.raw_output # EmptyText /\ show_details
            THEN << Line("output heading", 10), Blank, Line("fence", 3),
                    Line("raw output", TextBytes(cut.text)) >>
                 \o (IF cut.truncated
                     THEN << Line("lines notice",
                                  36 + DecLen(max_details_lines)
                                     + DecLen(Len(s.raw_output))) >>
                     ELSE <<>>)
                 \o << Line("fence", 3), Blank >>
            ELSE <<>>
    IN << Line("title", 3 + s.title), Blank >>
       \o badge \o table \o failedSection \o passedSection \o rawSection

\* The lines kept by the size-enforcement loop: the longest prefix whose
\* bytes, one newline per line included, stay within the limit.
RECURSIVE KeepLines(_, _, _)
KeepLines(lines, current_size, limit) ==
    IF lines = <<>> THEN <<>>
    ELSE IF current_size + Head(lines).n + 1 > limit THEN <<>>
    ELSE <<Head(lines)>>
         \o KeepLines(Tail(lines), current_size + Head(lines).n + 1, limit)

EnforceSize_no_reserve(lines) ==
    IF JoinBytes(lines) > SAFE_SUMMARY_SIZE
    THEN KeepLines(lines, 0, SAFE_SUMMARY_SIZE)
         \o << Blank, TruncationWarning >>
    ELSE lines

EnforceSize(lines) ==
    IF JoinBytes(lines) > SAFE_SUMMARY_SIZE
    THEN KeepLines(lines, 0, SAFE_SUMMARY_SIZE - TRUNCATION_RESERVE)
         \o << Blank, TruncationWarning >>
    ELSE lines

generate_markdown(s, show_details, show_passed, max_details_lines, include_badge) ==
    EnforceSize(ComposeLines(s, show_details, show_passed, max_details_lines,
                             include_badge))

----------------------------------------------------------------------------
(* JSON emitter and the CI sinks *)

JsonDocument(s) ==
    [title |-> s.title, status |-> status(s), passed |-> s.passed,
     failed |-> s.failed, skipped |-> s.skipped, errors |-> s.errors,
     total |-> s.total, duration |-> s.duration, pass_rate |-> pass_rate(s),
     format |-> s.format_detected, timestamp |-> s.timestamp,
     test_cases |-> [i \in DOMAIN s.test_cases |->
        [name |-> s.test_cases[i].name,
         classname |-> s.test_cases[i].classname,
         status |-> s.test_cases[i].status,
         duration |-> s.test_cases[i].duration,
         message |-> s.test_cases[i].message]]]

OutputLines(s) ==
    << [key |-> "status", tag |-> status(s)],
       [key |-> "passed", int |-> s.passed],
       [key |-> "failed", int |-> s.failed],
       [key |-> "skipped", int |-> s.skipped],
       [key |-> "total", int |-> s.total],
       [key |-> "duration", int |-> s.duration],
       [key |-> "pass_rate", tenths |-> Tenths(pass_rate(s))] >>

\* write_github_outputs: the outputs file after the call.
write_github_outputs(file, s, environ) ==
    IF environ.GITHUB_OUTPUT THEN file \o OutputLines(s) ELSE file

\* write_step_summary: the step-summary file after the call.
write_step_summary(file, markdown, environ) ==
    IF environ.GITHUB_STEP_SUMMARY
    THEN file \o << [write |-> "markdown", body |-> markdown],
                    [write |-> "newline"] >>
    ELSE file

ExitCodeFor_passed_only(s) == IF status(s) = "passed" THEN 0 ELSE 1

\* main's return value: "return 0 if summary.status != 'failed' else 1".
ExitCodeFor(s) == IF status(s) # "failed" THEN 0 ELSE 1

----------------------------------------------------------------------------
(* main *)

NoInput == [mode |-> "none"]
NoValue == [none |-> TRUE]
NoDoc == [fmt |-> "none"]

Environments == [GITHUB_STEP_SUMMARY : BOOLEAN, GITHUB_OUTPUT : BOOLEAN]

Files ==
    { [exists |-> TRUE, readable |-> TRUE, path |-> p, doc |-> d,
       text |-> LineKinds(d)] : p \in Paths, d \in Docs }
    \cup [exists : {TRUE, FALSE}, readable : {FALSE}, path : Paths,
          doc : {NoDoc}, text : {<<>>}]

\* Input bound: a text parser (go, npm, tap) is only given text of its own
\* format; the structured parsers are given anything; the generic parser
\* is given generic and Jest text, and whatever detection sends to it.
InScope(file, format_type) ==
    (file.exists /\ file.readable) =>
        LET p == ResolveFormat(file, format_type)
        IN \/ p \in {"junit", "pytest-json"}
           \/ p = file.doc.fmt
           \/ p = "generic" /\ (format_type = "auto" \/ file.doc.fmt = "npm")

Titles == {DefaultTitle}

\* An optional integer flag: <<>> when the flag is not given.
FlagOr0(a) == IF a = <<>> THEN 0 ELSE a[1]
PassedFlags == {<<>>, <<1>>, <<10>>, <<-1>>}
FailedFlags == {<<>>, <<0>>, <<2>>}
SkippedFlags == {<<>>, <<1>>}
ErrorsFlags == {<<>>, <<1>>}
DurationFlags == {<<>>, <<1500>>}

MarkdownArgs ==
    [json : {FALSE}, output : BOOLEAN, github_summary : BOOLEAN,
     github_outputs : BOOLEAN, show_details : BOOLEAN, show_passed : BOOLEAN,
     max_lines : {DEFAULT_MAX_LINES}, no_badge : {FALSE}]
JsonArgs ==
    [json : {TRUE}, output : BOOLEAN, github_summary : {FALSE},
     github_outputs : BOOLEAN, show_details : {FALSE}, show_passed : {FALSE},
     max_lines : {DEFAULT_MAX_LINES}, no_badge : {FALSE}]

Attach(s, title) == [s EXCEPT !.title = title, !.timestamp = "now"]

InputOf(file, format_type) ==
    [mode |-> "file", exists |-> file.exists, readable |-> file.readable,
     doc |-> file.doc,
     parser |-> IF file.exists THEN ResolveFormat(file, format_type) ELSE "none"]

Init ==
    /\ pc = "start"
    /\ env \in Environments
    /\ input = NoInput
    /\ summary = NoSummary
    /\ args = NoArgs
    /\ stdout = <<>>
    /\ stderr = <<>>
    /\ outputFile = NoFile
    /\ stepSummaryFile = <<>>
    /\ outputsFile = <<>>
    /\ exitCode = NoExit
    /\ returned = NoValue

\* File mode, parse_results returns.
BuildFromFile ==
    /\ pc = "start"
    /\ \E file \in Files, format_type \in FormatChoices, title \in Titles :
         /\ InScope(file, format_type)
         /\ parse_results(file, format_type).ok
         /\ input' = InputOf(file, format_type)
         /\ summary' = Attach(parse_results(file, format_type).summary, title)
    /\ pc' = "built"
    /\ UNCHANGED <<env, args, stdout, stderr, outputFile, stepSummaryFile,
                   outputsFile, exitCode, returned>>

\* File mode, parse_results raises: the error is reported and main returns 1.
FailOnFile ==
    /\ pc = "start"
    /\ \E file \in Files, format_type \in FormatChoices :
         /\ InScope(file, format_type)
         /\ ~parse_results(file, format_type).ok
         /\ input' = InputOf(file, format_type)
         /\ stderr' = Append(stderr,
                [error |-> parse_results(file, format_type).error])
    /\ exitCode' = 1
    /\ pc' = "exit"
    /\ UNCHANGED <<env, summary, args, stdout, outputFile, stepSummaryFile,
                   outputsFile, returned>>

\* Manual input mode.
BuildManual ==
    /\ pc = "start"
    /\ \E passed \in PassedFlags, failed \in FailedFlags,
          skipped \in SkippedFlags, errs \in ErrorsFlags,
          duration \in DurationFlags, title \in Titles :
         /\ input' = [mode |-> "manual", passed |-> passed, failed |-> failed,
                      skipped |-> skipped, errors |-> errs,
                      duration |-> duration]
         /\ summary' = Attach(calculate_totals(
                [TestSummary("manual") EXCEPT
                   !.passed = FlagOr0(passed), !.failed = FlagOr0(failed),
                   !.skipped = FlagOr0(skipped), !.errors = FlagOr0(errs),
                   !.duration = FlagOr0(duration)]), title)
    /\ pc' = "built"
    /\ UNCHANGED <<env, args, stdout, stderr, outputFile, stepSummaryFile,
                   outputsFile, exitCode, returned>>

\* --json: the document is printed and main returns.
EmitJson ==
    /\ pc = "built"
    /\ \E a \in JsonArgs : args' = a
    /\ returned' = JsonDocument(summary)
    /\ stdout' = Append(stdout, [kind |-> "json", body |-> JsonDocument(summary)])
    /\ exitCode' = ExitCodeFor(summary)
    /\ pc' = "exit"
    /\ UNCHANGED <<env, input, summary, stderr, outputFile, stepSummaryFile,
                   outputsFile>>

\* The Markdown path: render, deliver to a sink, write the outputs, return.
EmitMarkdown ==
    /\ pc = "built"
    /\ \E a \in MarkdownArgs :
         LET markdown == generate_markdown(summary, a.show_details,
                             a.show_passed, a.max_lines, ~a.no_badge)
         IN /\ args' = a
            /\ returned' = markdown
            /\ IF a.output
               THEN /\ outputFile' = <<[write |-> "markdown", body |-> markdown]>>
                    /\ UNCHANGED <<stepSummaryFile, stdout>>
               ELSE IF a.github_summary \/ env.GITHUB_STEP_SUMMARY
               THEN /\ stepSummaryFile' =
                          write_step_summary(stepSummaryFile, markdown, env)
                    /\ UNCHANGED <<outputFile, stdout>>
               ELSE /\ stdout' = Append(stdout,
                          [kind |-> "markdown", body |-> markdown])
                    /\ UNCHANGED <<outputFile, stepSummaryFile>>
            /\ IF a.github_outputs \/ env.GITHUB_OUTPUT
               THEN outputsFile' = write_github_outputs(outputsFile, summary, env)
               ELSE UNCHANGED outputsFile
    /\ exitCode' = ExitCodeFor(summary)
    /\ pc' = "exit"
    /\ UNCHANGED <<env, input, summary, stderr>>

Next ==
    \/ BuildFromFile
    \/ FailOnFile
    \/ BuildManual
    \/ EmitJson
    \/ EmitMarkdown

Spec == Init /\ [][Next]_vars

----------------------------------------------------------------------------
(* The data model on its own: the accessors and calculate_totals applied  *)
(* to arbitrary counter values.                                           *)

CounterRange == (0 - 1)..MaxCount

ModelSummaries ==
    { [TestSummary("unknown") EXCEPT !.passed = p, !.failed = f, !.skipped = k,
                                     !.errors = e, !.total = t] :
        p \in CounterRange, f \in CounterRange, k \in CounterRange,
        e \in CounterRange, t \in CounterRange }

InitModel ==
    /\ pc = "model"
    /\ summary \in ModelSummaries
    /\ env = [GITHUB_STEP_SUMMARY |-> FALSE, GITHUB_OUTPUT |-> FALSE]
    /\ input = NoInput
    /\ args = NoArgs
    /\ stdout = <<>>
    /\ stderr = <<>>
    /\ outputFile = NoFile
    /\ stepSummaryFile = <<>>
    /\ outputsFile = <<>>
    /\ exitCode = NoExit
    /\ returned = NoValue

ReadStatus ==
    /\ pc = "model"
    /\ returned' = [status |-> status(summary)]
    /\ UNCHANGED <<pc, env, input, summary, args, stdout, stderr, outputFile,
                   stepSummaryFile, outputsFile, exitCode>>

ReadPassRate ==
    /\ pc = "model"
    /\ returned' = [pass_rate |-> pass_rate(summary)]
    /\ UNCHANGED <<pc, env, input, summary, args, stdout, stderr, outputFile,
                   stepSummaryFile, outputsFile, exitCode>>

CalculateTotals ==
    /\ pc = "model"
    /\ summary' = calculate_totals(summary)
    /\ UNCHANGED <<pc, env, input, args, stdout, stderr, outputFile,
                   stepSummaryFile, outputsFile, exitCode, returned>>

NextModel ==
    \/ ReadStatus
    \/ ReadPassRate
    \/ CalculateTotals

SpecModel == InitModel /\ [][NextModel]_vars

----------------------------------------------------------------------------
(* The renderer on its own: generate_markdown applied to summaries with   *)
(* long titles, long raw output and lists of test cases.                  *)

TitleLens == {DefaultTitle, 999900, 2000000}
RawLineLens == {10, 600000, 2000000}
CaseVals == {TestCase(6, 5, "failed", 10, 250, 40), TestCase(6, 0, "passed", 10, 0, 0)}
RenderCounters ==
    { [passed |-> 0, failed |-> 0, skipped |-> 0, errors |-> 0, total |-> 0,
       duration |-> 0],
      [passed |-> 2, failed |-> 1, skipped |-> 0, errors |-> 0, total |-> 3,
       duration |-> 1500],
      [passed |-> 1, failed |-> 0, skipped |-> 1, errors |-> 1, total |-> 3,
       duration |-> 61000] }
RawOutputs ==
    {EmptyText} \cup (SeqsUpTo(RawLineLens, MaxRawLines) \ {<<>>})
MaxLinesChoices == {0, 1, DEFAULT_MAX_LINES}

RenderSummaries ==
    { [TestSummary("tap") EXCEPT
         !.title = t, !.passed = c.passed, !.failed = c.failed,
         !.skipped = c.skipped, !.errors = c.errors, !.total = c.total,
         !.duration = c.duration, !.test_cases = tcs, !.raw_output = raw] :
        t \in TitleLens, c \in RenderCounters,
        tcs \in SeqsUpTo(CaseVals, MaxCases), raw \in RawOutputs }

InitRender ==
    /\ pc = "render"
    /\ summary \in RenderSummaries
    /\ env = [GITHUB_STEP_SUMMARY |-> FALSE, GITHUB_OUTPUT |-> FALSE]
    /\ input = NoInput
    /\ args = NoArgs
    /\ stdout = <<>>
    /\ stderr = <<>>
    /\ outputFile = NoFile
    /\ stepSummaryFile = <<>>
    /\ outputsFile = <<>>
    /\ exitCode = NoExit
    /\ returned = NoValue

Render ==
    /\ pc = "render"
    /\ \E show_details \in BOOLEAN, show_passed \in BOOLEAN,
          include_badge \in BOOLEAN, max_lines \in MaxLinesChoices :
         /\ args' = [json |-> FALSE, output |-> FALSE, github_summary |-> FALSE,
                     github_outputs |-> FALSE, show_details |-> show_details,
                     show_passed |-> show_passed, max_lines |-> max_lines,
                     no_badge |-> ~include_badge]
         /\ returned' = generate_markdown(summary, show_details, show_passed,
                                          max_lines, include_badge)
    /\ pc' = "rendered"
    /\ UNCHANGED <<env, input, summary, stdout, stderr, outputFile,
                   stepSummaryFile, outputsFile, exitCode>>

NextRender == Render

SpecRender == InitRender /\ [][NextRender]_vars

----------------------------------------------------------------------------
(* The detector on its own: detect_format applied to paths with and       *)
(* without a suffix and to texts that mix the markers of several formats. *)

\* Lines ahead of the text proper: none, a blank line, or enough ordinary
\* lines to push the text to the edge of the sample or out of it.
Preambles ==
    {<<>>, <<"blank">>, [i \in 1..(SNIFF_LINES - 1) |-> "other"],
     [i \in 1..SNIFF_LINES |-> "other"]}

DetectTexts ==
    {p \o t : p \in Preambles, t \in SeqsUpTo(SniffKinds, MaxTextLines)}

DetectFiles ==
    [exists : {TRUE}, readable : {TRUE}, path : Paths, text : DetectTexts]
    \cup [exists : {TRUE, FALSE}, readable : {FALSE}, path : Paths,
          text : {<<>>}]

InitDetect ==
    /\ pc = "detect"
    /\ input \in {[mode |-> "detect", file |-> f] : f \in DetectFiles}
    /\ env = [GITHUB_STEP_SUMMARY |-> FALSE, GITHUB_OUTPUT |-> FALSE]
    /\ summary = NoSummary
    /\ args = NoArgs
    /\ stdout = <<>>
    /\ stderr = <<>>
    /\ outputFile = NoFile
    /\ stepSummaryFile = <<>>
    /\ outputsFile = <<>>
    /\ exitCode = NoExit
    /\ returned = NoValue

Detect ==
    /\ pc = "detect"
    /\ returned' = [format |-> detect_format(input.file)]
    /\ pc' = "detected"
    /\ UNCHANGED <<env, input, summary, args, stdout, stderr, outputFile,
                   stepSummaryFile, outputsFile, exitCode>>

NextDetect == Detect

SpecDetect == InitDetect /\ [][NextDetect]_vars

----------------------------------------------------------------------------
(* Vocabulary of the properties *)

Built == summary # NoSummary
Finished == pc = "exit"
Reported == Finished /\ Built /\ args # NoArgs
FileMode == input.mode = "file"
ManualMode == input.mode = "manual"
ParsedBy(fmt) == FileMode /\ input.exists /\ input.readable /\ input.parser = fmt

CounterSum(s) == s.passed + s.failed + s.skipped + s.errors
InPercentRange(r) == 0 <= r.num /\ r.num <= 100 * r.den
NothingWritten ==
    /\ stdout = <<>>
    /\ outputFile = NoFile
    /\ stepSummaryFile = <<>>
    /\ outputsFile = <<>>

\* The structured input the chosen parser is given does not decode.
WellFormedXml(doc) == doc.fmt = "junit" /\ doc.wellformed
DecodableJson(doc) == doc.fmt = "pytest-json" /\ doc.shape # "undecodable"
DecodeFails ==
    \/ ParsedBy("junit") /\ ~WellFormedXml(input.doc)
    \/ ParsedBy("pytest-json") /\ ~DecodableJson(input.doc)

\* total was derived from the counters, not supplied by the source.
TotalDerived ==
    \/ ManualMode
    \/ ParsedBy("go")
    \/ ParsedBy("pytest-json") /\ DecodableJson(input.doc)
          /\ input.doc.shape = "reportlog"
    \/ ParsedBy("npm") /\ (~input.doc.tests_line \/ input.doc.n_total = NoMatch)
    \/ ParsedBy("tap") /\ input.doc.plan = NoMatch
    \/ ParsedBy("generic") /\ GenericMatches(input.doc).n_total = NoMatch

ManualFlagsNonNegative ==
    /\ FlagOr0(input.passed) >= 0
    /\ FlagOr0(input.failed) >= 0
    /\ FlagOr0(input.skipped) >= 0
    /\ FlagOr0(input.errors) >= 0

----------------------------------------------------------------------------
(* C1 *)

Untruncated ==
    ComposeLines(summary, args.show_details, args.show_passed, args.max_lines,
                 ~args.no_badge)

\* C1: whatever the summary and the rendering options, the string
\* generate_markdown returns is at most 1,000,000 bytes long, and when the
\* untruncated composition is longer than that, the returned string ends with
\* the truncation warning line.
C1_MarkdownWithinCeiling ==
    pc = "rendered" =>
        /\ JoinBytes(returned) <= 1000000
        /\ JoinBytes(Untruncated) > 1000000 =>
              /\ returned # <<>>
              /\ returned[Len(returned)] = Line("truncation warning", 47)

\* An oversized raw_output was cut away and the lines before it were kept.
C1_Witness ==
    /\ pc = "rendered"
    /\ JoinBytes(Untruncated) > 2000000
    /\ Len(returned) > 2
    /\ returned[Len(returned)] = Line("truncation warning", 47)

----------------------------------------------------------------------------
(* C2 *)

\* C2: when main built a summary and returned, in the --json path and in the
\* Markdown path alike, the exit code is 1 exactly when failed > 0 or
\* errors > 0 and 0 otherwise; manual mode with --passed 10 --failed 2 gives
\* total 12, status failed and exit code 1.
C2_ExitCodeReflectsStatus ==
    (Finished /\ Built) =>
        /\ exitCode \in {0, 1}
        /\ exitCode = 1 <=> (summary.failed > 0 \/ summary.errors > 0)
        /\ (ManualMode /\ input.passed = <<10>> /\ input.failed = <<2>>
                /\ input.skipped = <<>> /\ input.errors = <<>>) =>
              (summary.total = 12 /\ status(summary) = "failed" /\ exitCode = 1)

C2_Witness ==
    /\ Finished /\ Built /\ ManualMode
    /\ input.passed = <<10>> /\ input.failed = <<2>>
    /\ input.skipped = <<>> /\ input.errors = <<>>
    /\ args.json
    /\ exitCode = 1

----------------------------------------------------------------------------
(* C3 *)

\* C3: in file mode, when the path does not exist or the XML (junit) or JSON
\* (pytest-json) input does not decode, main has written an error to the
\* error stream and returned 1, no summary was built, and nothing was written
\* to standard output, the --output file, the step-summary file or the
\* outputs file.
C3_BadInputIsFatal ==
    (FileMode /\ (~input.exists \/ DecodeFails)) =>
        /\ Finished
        /\ exitCode = 1
        /\ Len(stderr) = 1
        /\ ~Built
        /\ NothingWritten

C3_Witness ==
    /\ ParsedBy("pytest-json")
    /\ input.doc.fmt = "pytest-json"
    /\ input.doc.shape = "undecodable"
    /\ Finished
    /\ exitCode = 1
    /\ Len(stderr) = 1

----------------------------------------------------------------------------
(* C4 *)

StepSummaryHolds(markdown) ==
    /\ Len(stepSummaryFile) = 2
    /\ stepSummaryFile[1] = [write |-> "markdown", body |-> markdown]
    /\ stepSummaryFile[2] = [write |-> "newline"]

\* C4: in a run that is not --json, the Markdown goes to exactly one sink:
\* the --output file when --output is given; else the step-summary file (with
\* a trailing newline) when GITHUB_STEP_SUMMARY is set or --github-summary is
\* passed; else standard output.
C4_ExactlyOneSinkByPriority ==
    (Reported /\ ~args.json) =>
        IF args.output
        THEN /\ outputFile = <<[write |-> "markdown", body |-> returned]>>
             /\ stepSummaryFile = <<>>
             /\ stdout = <<>>
        ELSE IF env.GITHUB_STEP_SUMMARY \/ args.github_summary
        THEN /\ StepSummaryHolds(returned)
             /\ outputFile = NoFile
             /\ stdout = <<>>
        ELSE /\ stdout = <<[kind |-> "markdown", body |-> returned]>>
             /\ outputFile = NoFile
             /\ stepSummaryFile = <<>>

----------------------------------------------------------------------------
(* C5 *)

OutputKeys ==
    <<"status", "passed", "failed", "skipped", "total", "duration", "pass_rate">>

\* C5: in every run that built a summary, --json or Markdown, when
\* GITHUB_OUTPUT is set or --github-outputs is passed the outputs file holds
\* the seven key=value lines, in order.
C5_OutputsWrittenInEveryMode ==
    (Reported /\ (env.GITHUB_OUTPUT \/ args.github_outputs)) =>
        /\ Len(outputsFile) = 7
        /\ \A i \in 1..7 : outputsFile[i].key = OutputKeys[i]

----------------------------------------------------------------------------
(* C6 *)

\* C6: status is "failed" exactly when failed > 0 or errors > 0, "passed"
\* exactly when it is not failed and passed > 0, and "unknown" otherwise,
\* whatever total and skipped are, also after total was recomputed; reading
\* it leaves the summary as it was.
C6_StatusIsPureFunctionOfCounters ==
    [][ /\ ("status" \in DOMAIN returned' /\ returned' # returned) =>
              summary' = summary
        /\ "status" \in DOMAIN returned' =>
              LET failing == summary'.failed > 0 \/ summary'.errors > 0
              IN /\ returned'.status = "failed" <=> failing
                 /\ returned'.status = "passed" <=>
                        (~failing /\ summary'.passed > 0)
                 /\ returned'.status = "unknown" <=>
                        (~failing /\ ~(summary'.passed > 0)) ]_vars

\* errors alone make the status failed.
C6_Witness ==
    /\ pc = "model"
    /\ "status" \in DOMAIN returned
    /\ returned.status = "failed"
    /\ summary.failed <= 0
    /\ summary.errors > 0
    /\ summary.passed > 0

----------------------------------------------------------------------------
(* C7 *)

\* C7 as stated: for every summary a parser or manual mode produces,
\* pass_rate is 0.0 when total is 0 and lies in [0, 100] when total > 0.
C7_PassRateAlwaysInRange ==
    Built =>
        /\ summary.total = 0 => pass_rate(summary) = Fraction(0, 1)
        /\ summary.total > 0 => InPercentRange(pass_rate(summary))

\* C7, amended: pass_rate is 0.0 when total is 0; when total > 0 it is
\* passed / total * 100, which lies in [0, 100] exactly when
\* 0 <= passed <= total; and that is the case whenever total was derived by
\* a parser, or in manual mode from flags that are not negative.
C7_PassRateInRangeWhenConsistent ==
    Built =>
        /\ summary.total = 0 => pass_rate(summary) = Fraction(0, 1)
        /\ summary.total > 0 =>
              /\ pass_rate(summary).num * summary.total
                     = 100 * summary.passed * pass_rate(summary).den
              /\ InPercentRange(pass_rate(summary)) <=>
                     (0 <= summary.passed /\ summary.passed <= summary.total)
              /\ (TotalDerived /\ (ManualMode => ManualFlagsNonNegative)) =>
                     InPercentRange(pass_rate(summary))

\* A TAP run without a plan line: one of three results passed.
C7_Witness ==
    /\ Built
    /\ ParsedBy("tap")
    /\ input.doc.plan = NoMatch
    /\ summary.total = 3
    /\ summary.passed = 1
    /\ InPercentRange(pass_rate(summary))
    /\ pass_rate(summary).num > 0

----------------------------------------------------------------------------
(* C8 *)

\* C8: whenever total is derived (manual mode, Go, the pytest report-log
\* array, npm without a total clause, TAP without a plan line, generic
\* without a total phrase) the summary has
\* total = passed + failed + skipped + errors; and calculate_totals writes
\* total only when total is 0 and changes none of the four counters.
C8_DerivedTotalIsCounterSum ==
    Built =>
        /\ TotalDerived => summary.total = CounterSum(summary)
        /\ LET after == calculate_totals(summary)
           IN /\ after.passed = summary.passed
              /\ after.failed = summary.failed
              /\ after.skipped = summary.skipped
              /\ after.errors = summary.errors
              /\ summary.total # 0 => after = summary
              /\ summary.total = 0 => after.total = CounterSum(summary)

\* Manual mode with an error count: the errors are part of the total.
C8_Witness ==
    /\ Built
    /\ ManualMode
    /\ summary.errors = 1
    /\ summary.passed = 10
    /\ summary.total = CounterSum(summary)
    /\ summary.total > 11

----------------------------------------------------------------------------
(* C9 *)

\* C9: in the TAP parser, whenever the input has a plan line 1..N, for every
\* N >= 0, the finished summary's total is N; the input 1..3, ok, not ok,
\* ok # SKIP gives total 3, passed 1, failed 1, skipped 1.
C9_TapPlanIsAuthoritative ==
    (Built /\ ParsedBy("tap") /\ input.doc.plan # NoMatch) =>
        /\ summary.total = input.doc.plan
        /\ (input.doc.plan = 3 /\ input.doc.results = <<"ok", "notok", "okskip">>)
              => (summary.passed = 1 /\ summary.failed = 1 /\ summary.skipped = 1)

----------------------------------------------------------------------------
(* C10 *)

SummaryFields ==
    {"title", "passed", "failed", "skipped", "errors", "total", "duration",
     "test_cases", "raw_output", "timestamp"}
CaseFields == {"name", "classname", "status", "duration", "message", "output"}

\* C10: the JSON document printed in --json mode holds every stored field of
\* the summary (the format tag under either name), the derived status and
\* pass_rate, and for every test case, in order, every field of the case.
C10_JsonHoldsEveryField ==
    (Reported /\ args.json) =>
        LET doc == stdout[1].body
        IN /\ SummaryFields \subseteq DOMAIN doc
           /\ \E k \in {"format", "format_detected"} : k \in DOMAIN doc
           /\ {"status", "pass_rate"} \subseteq DOMAIN doc
           /\ Len(doc.test_cases) = Len(summary.test_cases)
           /\ \A i \in DOMAIN doc.test_cases :
                 /\ CaseFields \subseteq DOMAIN doc.test_cases[i]
                 /\ \A f \in CaseFields :
                       doc.test_cases[i][f] = summary.test_cases[i][f]

----------------------------------------------------------------------------
(* C11 *)

\* The text the detector samples, and the rules of the sniffing in their
\* order: the first rule the sample satisfies gives the format.
Sample == first_lines(input.file.text)
LeadingLine == IF Stripped(Sample) = <<>> THEN "none" ELSE Head(Stripped(Sample))
SniffRules ==
    << [tag |-> "junit", holds |-> LeadingLine = "xmldecl"],
       [tag |-> "pytest-json", holds |-> LeadingLine = "brace"],
       [tag |-> "go", holds |-> \E i \in DOMAIN Sample :
                                   Sample[i] \in {"run", "dashpass"}],
       [tag |-> "npm", holds |-> \E i \in DOMAIN Sample :
                                    Sample[i] \in {"tests", "passsuite"}],
       [tag |-> "tap", holds |-> \E i \in DOMAIN Sample : Sample[i] = "plan"] >>
FirstSniffMatch ==
    IF \E i \in DOMAIN SniffRules : SniffRules[i].holds
    THEN SniffRules[CHOOSE i \in DOMAIN SniffRules :
                       /\ SniffRules[i].holds
                       /\ \A j \in 1..(i - 1) : ~SniffRules[j].holds].tag
    ELSE "generic"

PathEndsWith(e) == input.file.path.ending = e
HasExtension(e) == input.file.path.stem > 0 /\ input.file.path.ending = e

\* C11 (as stated): detect_format returns a tag of the closed set for every
\* file; a path ending .xml gives junit and a path ending .json gives
\* pytest-json whatever the content and whether or not the file can be read;
\* for any other path the result is the first sniffing rule the first ten
\* lines satisfy, and generic when none does or the file cannot be read.
C11_PathEndingDecides ==
    pc = "detected" =>
        /\ returned.format \in Formats
        /\ returned.format =
              IF PathEndsWith(".xml") THEN "junit"
              ELSE IF PathEndsWith(".json") THEN "pytest-json"
              ELSE IF ~input.file.readable THEN "generic"
              ELSE FirstSniffMatch

\* C11 (amended): the same, with the extension read as Path.suffix reads it:
\* the final component ends in .xml or .json and has at least one character
\* before that dot.  A file named exactly ".xml" or ".json" has no extension
\* and is sniffed like any other.
C11_ExtensionDecides ==
    pc = "detected" =>
        /\ returned.format \in Formats
        /\ returned.format =
              IF HasExtension(".xml") THEN "junit"
              ELSE IF HasExtension(".json") THEN "pytest-json"
              ELSE IF ~input.file.readable THEN "generic"
              ELSE FirstSniffMatch

\* A sniffed file whose sample shows both a Jest marker and, after it, a Go
\* marker, detected as go; the detector has returned.
C11_Witness ==
    /\ pc = "detected"
    /\ ~HasExtension(".xml") /\ ~HasExtension(".json")
    /\ input.file.readable
    /\ input.file.text = <<"tests", "run">>
    /\ returned.format = "go"

----------------------------------------------------------------------------
(* C12 *)

CountersNonNegative(s) ==
    /\ s.passed >= 0
    /\ s.failed >= 0
    /\ s.skipped >= 0
    /\ s.errors >= 0
    /\ s.total >= 0

AllZero(s) ==
    /\ s.passed = 0
    /\ s.failed = 0
    /\ s.skipped = 0
    /\ s.errors = 0
    /\ s.total = 0

\* The source the parser read carries no number for any counter.
NoNumberFound ==
    \/ /\ ParsedBy("junit") /\ WellFormedXml(input.doc)
       /\ \A i \in DOMAIN input.doc.suites :
             /\ input.doc.suites[i].tests = NoMatch
             /\ input.doc.suites[i].failures = NoMatch
             /\ input.doc.suites[i].errors = NoMatch
             /\ input.doc.suites[i].skipped = NoMatch
    \/ /\ ParsedBy("generic")
       /\ \A f \in {"n_passed", "n_failed", "n_skipped", "n_errors",
                    "kv_passed", "kv_failed", "kv_skipped", "n_total"} :
             GenericMatches(input.doc)[f] = NoMatch
    \/ /\ ParsedBy("tap")
       /\ input.doc.plan = NoMatch /\ input.doc.results = <<>>

\* C12: in every summary main builds, by any parser or from the manual
\* flags, passed, failed, skipped, errors and total are all at least 0 (the
\* JUnit recomputation of passed and the manual integer flags included), and
\* a parser that finds no number returns with the counters at 0.
C12_CountersNeverNegative ==
    Built =>
        /\ CountersNonNegative(summary)
        /\ NoNumberFound => AllZero(summary)

----------------------------------------------------------------------------
(* C13 *)

\* Decoded documents that are neither a report (an object with a "summary"
\* key) nor a report log (an array of objects).
OtherJsonShapes == {"object", "scalar", "string", "array_named", "array_mixed"}

\* C13: when the pytest-json parser is given well-formed JSON that is neither
\* an object with a "summary" key nor an array of report objects, it returns
\* a summary tagged pytest-json whose counters are all 0 and raises nothing:
\* main holds that summary, has written no error and goes on to render.
C13_OtherJsonShapesGiveEmptySummary ==
    (/\ ParsedBy("pytest-json")
     /\ DecodableJson(input.doc)
     /\ input.doc.shape \in OtherJsonShapes)
    => /\ Built
       /\ AllZero(summary)
       /\ summary.format_detected = "pytest-json"
       /\ stderr = <<>>
       /\ Finished => exitCode = 0

====
